---- MODULE Spec2Model ----
(***************************************************************************)
(* Model of visitmonitor.py: the cached load_data() of a dealer-visit      *)
(* worksheet and the filter / aggregation pass of main().                  *)
(***************************************************************************)
EXTENDS Integers, Sequences, FiniteSets, TLC

VARIABLES
    credFile,     \* 'sheet_access.json' is a usable service-account file
    credSecrets,  \* st.secrets["gcp_service_account"] is a usable blob
    fault,        \* the backend call that currently fails, or "none"
    sheet,        \* rows of worksheet 'responses' as get_all_records() gives them
    now,          \* wall clock, seconds
    cache,        \* the st.cache_data entry of load_data()
    view          \* what the last run of main() computed and displayed

vars == <<credFile, credSecrets, fault, sheet, now, cache, view>>

----------------------------------------------------------------------------
(* Bounds of the model *)

MaxTime == 905          \* the clock stops advancing here
MaxDay == 1             \* calendar days 0..MaxDay
MaxRows == 2            \* rows of the worksheet when the filter is examined
MaxVisits == 3          \* rows of the worksheet when the aggregates are examined
MaxIssueChars == 4      \* characters in the issues column, all rows together

(* Program constants *)
TTL == 600              \* @st.cache_data(ttl=600), seconds
HoursPerDay == 24       \* a timestamp counts hours, .dt.date drops the hour

----------------------------------------------------------------------------
(* Generic helpers *)

Range(s) == {s[i] : i \in DOMAIN s}

RECURSIVE SumSeq(_)
SumSeq(s) == IF s = <<>> THEN 0 ELSE Head(s) + SumSeq(Tail(s))

\* the positions i..Len(keep) for which keep[i] holds, in order: the index
\* labels that df[mask] keeps
RECURSIVE Take(_, _)
Take(keep, i) ==
    IF i > Len(keep) THEN <<>>
    ELSE (IF keep[i] THEN <<i>> ELSE <<>>) \o Take(keep, i + 1)

\* all orderings of the elements of the finite set S
Orderings(S) ==
    {f \in [1..Cardinality(S) -> S] : \A x \in S : \E i \in DOMAIN f : f[i] = x}

----------------------------------------------------------------------------
(* Cell values *)

NaT == -1               \* pandas' missing timestamp
NaN == "NaN"            \* pandas' missing value in an object column

Dealers == {"Dealer A", "Dealer B"}
Codes == {"A1", "B1"}
Chars == {"n", "p", ",", " "}
Delim == <<",", " ">>   \* the delimiter ', '

Days == 0..MaxDay
Hours == {0, HoursPerDay - 1}

Stamp(d, h) == [kind |-> "stamp", day |-> d, hour |-> h]
BlankCell == [kind |-> "blank", day |-> 0, hour |-> 0]
GarbageCell == [kind |-> "garbage", day |-> 0, hour |-> 0]

Text(cs) == [str |-> TRUE, chars |-> cs]
NumberCell == [str |-> FALSE, chars |-> <<>>]

RawHeaders ==
    {"submitted_datetime", "dealer", "dealer code", "showroom", "swift",
     "lending", "buy now", "issues", "purpose", "problems", "positives",
     "requests"}

BoolCols == {"showroom", "swift", "lending", "buy_now"}

DetailCols ==
    {"submitted_datetime", "dealer", "dealer_code", "purpose", "problems",
     "positives", "requests"}

----------------------------------------------------------------------------
(* load_data(): the steps inside the try block *)

\* df.rename(columns={...}): the five renames, every other name unchanged
RenameCol(c) ==
    CASE c = "buy now" -> "buy_now"
      [] c = "dealer code" -> "dealer_code"
      [] c = "Hatla2ee link" -> "hatla2ee_link"
      [] c = "dubizzle link" -> "dubizzle_link"
      [] c = "showroom capacity" -> "showroom_capacity"
      [] OTHER -> c

RenameRow(row) ==
    [c \in {RenameCol(k) : k \in DOMAIN row} |->
        row[CHOOSE k \in DOMAIN row : RenameCol(k) = c]]

\* pd.DataFrame(data) followed by rename: no rows give a frame with no columns
EmptyFrame == [columns |-> {}, rows |-> <<>>]

Frame(data) ==
    IF data = <<>> THEN EmptyFrame
    ELSE [columns |-> {RenameCol(k) : k \in DOMAIN data[1]},
          rows |-> [i \in DOMAIN data |-> RenameRow(data[i])]]

\* pd.to_datetime on one cell: a timestamp, NaT for a blank cell
ToDatetime(cell) ==
    IF cell.kind = "stamp" THEN cell.day * HoursPerDay + cell.hour ELSE NaT

\* Series.dt.date on one timestamp
DateOf(ts) == IF ts = NaT THEN NaT ELSE ts \div HoursPerDay

\* .map({'Yes': True, 'No': False}) on one cell
MapYesNo(v) ==
    CASE v = "Yes" -> "True"
      [] v = "No" -> "False"
      [] OTHER -> NaN

\* position of the first occurrence of ', ' in s, 0 when there is none
FirstDelim(s) ==
    LET hits == {i \in 1..(Len(s) - 1) : s[i] = Delim[1] /\ s[i + 1] = Delim[2]}
    IN  IF hits = {} THEN 0 ELSE CHOOSE i \in hits : \A j \in hits : i <= j

\* str.split(', ') of one string
RECURSIVE Split(_)
Split(s) ==
    LET i == FirstDelim(s)
    IN  IF i = 0 THEN <<s>>
        ELSE <<SubSeq(s, 1, i - 1)>> \o Split(SubSeq(s, i + 2, Len(s)))

\* Series.str.split(', ') on one cell: a list for a string, NaN for any other value
StrSplit(cell) ==
    IF cell.str THEN [nan |-> FALSE, tags |-> Split(cell.chars)]
    ELSE [nan |-> TRUE, tags |-> <<>>]

\* the blob is tried first and the file is the fall-back
AcquireSecretsFirst(fileOK, secretsOK) ==
    IF secretsOK THEN <<[source |-> "secrets", ok |-> TRUE]>>
    ELSE <<[source |-> "secrets", ok |-> FALSE],
           [source |-> "service_account_file", ok |-> fileOK]>>

\* credential acquisition, lines 28-33: the sources tried, in order, and how
\* each attempt ended
AcquireCredentials(fileOK, secretsOK) ==
    IF fileOK THEN <<[source |-> "service_account_file", ok |-> TRUE]>>
    ELSE <<[source |-> "service_account_file", ok |-> FALSE],
           [source |-> "secrets", ok |-> secretsOK]>>

\* line 35 is reached: the last attempt made did not raise
HaveCredentials(attempts) == attempts[Len(attempts)].ok

\* the backend calls of lines 35-44, in order
BackendOps == <<"authorize", "open", "worksheet", "get_all_records">>

\* the backend calls made when call f fails ("none": all succeed)
BackendTrace(f) ==
    IF f = "none" THEN BackendOps
    ELSE SubSeq(BackendOps, 1, CHOOSE i \in DOMAIN BackendOps : BackendOps[i] = f)

\* lines 59-66 on the renamed frame: the step that raises, or "none"
NormalizeFailure(df) ==
    CASE "submitted_datetime" \notin df.columns -> "to_datetime"
      [] \E i \in DOMAIN df.rows : df.rows[i]["submitted_datetime"].kind = "garbage"
             -> "to_datetime"
      [] ~ (BoolCols \subseteq df.columns) -> "map"
      [] "issues" \notin df.columns -> "split"
      [] \A i \in DOMAIN df.rows : ~ df.rows[i]["issues"].str -> "split"
      [] OTHER -> "none"

NormalizeRow(row) ==
    [c \in DOMAIN row \cup {"issues_list"} |->
        CASE c = "submitted_datetime" -> ToDatetime(row[c])
          [] c \in BoolCols -> MapYesNo(row[c])
          [] c = "issues_list" -> StrSplit(row["issues"])
          [] OTHER -> row[c]]

Normalize(df) ==
    [columns |-> df.columns \cup {"issues_list"},
     rows |-> [i \in DOMAIN df.rows |-> NormalizeRow(df.rows[i])]]

\* df.columns is read without asking whether df was ever bound
ErrorHandlerUnguarded(dfBound, columns) ==
    [raised |-> ~ dfBound,
     shown |-> <<[message |-> "Error loading data", columns |-> {}]>>
               \o (IF dfBound THEN <<[message |-> "Available columns", columns |-> columns]>>
                   ELSE <<>>)]

\* the except block, lines 70-73: two messages, then the empty frame
ErrorHandler(dfBound, columns) ==
    [raised |-> FALSE,
     shown |-> <<[message |-> "Error loading data", columns |-> {}],
                 [message |-> "Available columns",
                  columns |-> IF dfBound THEN columns
                              ELSE {"No DataFrame available"}]>>]

\* the whole body of load_data(), lines 20-73
LoadBody(fileOK, secretsOK, f, data) ==
    LET attempts == AcquireCredentials(fileOK, secretsOK)
        df == Frame(data)
        failedAt ==
            CASE ~ HaveCredentials(attempts) -> "credentials"
              [] f # "none" -> f
              [] OTHER -> NormalizeFailure(df)
        calls == IF failedAt = "credentials" THEN <<>> ELSE BackendTrace(f)
        dfBound == failedAt \in {"to_datetime", "map", "split"}
        handled == ErrorHandler(dfBound, df.columns)
    IN  IF failedAt = "none"
        THEN [df |-> Normalize(df), shown |-> <<>>, raised |-> FALSE,
              failedAt |-> failedAt, attempts |-> attempts, calls |-> calls]
        ELSE [df |-> EmptyFrame, shown |-> handled.shown, raised |-> handled.raised,
              failedAt |-> failedAt, attempts |-> attempts, calls |-> calls]

----------------------------------------------------------------------------
(* main(): the dashboard pass over the frame load_data() returned *)

Col(rows, c) == [i \in DOMAIN rows |-> rows[i][c]]

\* the timestamps of the frame that are not missing: what min() and max() see
Stamps(df) == {t \in Range(Col(df.rows, "submitted_datetime")) : t # NaT}

\* the first line of main() that raises on df, 0 when none does.  Line 88 raises
\* KeyError without the timestamp column, and has no date to offer the picker
\* when every timestamp is missing; lines 94, 125 and 185 raise KeyError
\* without their columns.
FailLine(df) ==
    IF "submitted_datetime" \notin df.columns THEN 88
    ELSE IF Stamps(df) = {} THEN 88
    ELSE IF "dealer" \notin df.columns THEN 94
    ELSE IF "dealer_code" \notin df.columns THEN 125
    ELSE IF ~ (DetailCols \subseteq df.columns) THEN 185
    ELSE 0

FailName(df) ==
    IF "submitted_datetime" \in df.columns /\ Stamps(df) = {} THEN "ValueError"
    ELSE "KeyError"

\* line 88: value=(min().date(), max().date())
DefaultRange(df) ==
    LET S == Stamps(df)
    IN  <<DateOf(CHOOSE t \in S : \A u \in S : t <= u),
          DateOf(CHOOSE t \in S : \A u \in S : t >= u)>>

\* line 94: options=sorted(df['dealer'].unique())
DealerOptions(df) ==
    IF "dealer" \in df.columns THEN Range(Col(df.rows, "dealer")) ELSE {}

\* the timestamp itself is compared with the two dates, taken at midnight
DateMaskTimestamp(rows, start, end) ==
    [i \in DOMAIN rows |->
        LET t == rows[i]["submitted_datetime"]
        IN  t # NaT /\ t >= start * HoursPerDay /\ t <= end * HoursPerDay]

\* lines 98-99: the date comparisons, False for a missing timestamp
DateMask(rows, start, end) ==
    [i \in DOMAIN rows |->
        LET d == DateOf(rows[i]["submitted_datetime"])
        IN  d # NaT /\ d >= start /\ d <= end]

\* lines 100-101: the dealer test is applied only to a non-empty selection
Mask(rows, start, end, selected_dealers) ==
    LET m == DateMask(rows, start, end)
    IN  IF selected_dealers # {}
        THEN [i \in DOMAIN rows |-> m[i] /\ rows[i]["dealer"] \in selected_dealers]
        ELSE m

\* line 103: filtered_df = df[mask], as the index labels it keeps
Filter(rows, start, end, selected_dealers) ==
    Take(Mask(rows, start, end, selected_dealers), 1)

\* the rows of a frame at the index labels idx
Rows(df, idx) == [k \in DOMAIN idx |-> df.rows[idx[k]]]

\* line 118: nunique()
NUnique(rows, c) == Cardinality(Range(Col(rows, c)))

\* 'nunique' instead of 'count'
GroupCountUnique(rows, d) ==
    Cardinality({rows[i]["submitted_datetime"] : i \in
        {j \in DOMAIN rows :
            rows[j]["dealer"] = d /\ rows[j]["submitted_datetime"] # NaT}})

\* 'submitted_datetime': 'count' for one group: its timestamps that are not missing
GroupCount(rows, d) ==
    Cardinality({i \in DOMAIN rows :
        rows[i]["dealer"] = d /\ rows[i]["submitted_datetime"] # NaT})

\* 'dealer_code': 'first' for one group
GroupFirst(rows, d) ==
    LET G == {i \in DOMAIN rows : rows[i]["dealer"] = d}
    IN  rows[CHOOSE i \in G : \A j \in G : i <= j]["dealer_code"]

\* lines 125-130: one row per group
GroupBy(rows) ==
    {[dealer |-> d, visits |-> GroupCount(rows, d), code |-> GroupFirst(rows, d)] :
        d \in Range(Col(rows, "dealer"))}

\* sort_values() without ascending=False
SortVisitsAscending(S) ==
    {o \in Orderings(S) :
        \A i, j \in DOMAIN o : i < j => o[i].visits <= o[j].visits}

\* line 131: sort_values(ascending=False) with the default sort kind
\* ('quicksort'), which promises no order among equal keys: every descending
\* order of the groups is an outcome.  (groupby hands the groups over sorted by
\* dealer name, so also a sort that keeps equal keys in place gives the name
\* order, not the order of first encounter.)
SortVisits(S) ==
    {o \in Orderings(S) :
        \A i, j \in DOMAIN o : i < j => o[i].visits >= o[j].visits}

\* lines 148-150: the tags of every list that is not missing, in row order
RECURSIVE IssuesData(_)
IssuesData(lists) ==
    IF lists = <<>> THEN <<>>
    ELSE (IF Head(lists).nan THEN <<>> ELSE Head(lists).tags)
         \o IssuesData(Tail(lists))

\* the distinct values of key over the set S, largest first
RECURSIVE Descending(_)
Descending(K) ==
    IF K = {} THEN <<>>
    ELSE LET m == CHOOSE k \in K : \A j \in K : k >= j
         IN  <<m>> \o Descending(K \ {m})

\* line 152: value_counts(): a count per distinct tag, largest count first;
\* the tags of one count come in an order the sort does not promise and are
\* kept as a set
ValueCounts(data) ==
    LET Count(t) == Cardinality({i \in DOMAIN data : data[i] = t})
        counts == Descending({Count(t) : t \in Range(data)})
    IN  [k \in DOMAIN counts |->
            [count |-> counts[k], tags |-> {t \in Range(data) : Count(t) = counts[k]}]]

\* mean(skipna=False) with a missing value counted as not true
Mean100KeepMissing(rows, c) ==
    LET trues == {i \in DOMAIN rows : rows[i][c] = "True"}
    IN  IF rows = <<>> THEN [nan |-> TRUE, num |-> 0, den |-> 1]
        ELSE [nan |-> FALSE, num |-> 100 * Cardinality(trues), den |-> Len(rows)]

\* lines 166-169: mean() * 100 of one boolean column, as the fraction num/den.
\* mean() skips missing values; with no value left it is NaN.
Mean100(rows, c) ==
    LET present == {i \in DOMAIN rows : rows[i][c] # NaN}
        trues == {i \in present : rows[i][c] = "True"}
    IN  IF present = {} THEN [nan |-> TRUE, num |-> 0, den |-> 1]
        ELSE [nan |-> FALSE, num |-> 100 * Cardinality(trues),
              den |-> Cardinality(present)]

\* lines 185-188: the filtered rows newest first, as index labels; the rows of
\* one timestamp come in an order the sort does not promise and are kept as a set
Detail(df, idx) ==
    LET stamps == Descending({df.rows[i]["submitted_datetime"] : i \in Range(idx)})
    IN  [k \in DOMAIN stamps |->
            {i \in Range(idx) : df.rows[i]["submitted_datetime"] = stamps[k]}]

NoPct == [nan |-> TRUE, num |-> 0, den |-> 1]

\* nothing displayed yet
BlankView ==
    [ran |-> FALSE, at |-> 0, hit |-> FALSE, attempts |-> <<>>, calls |-> <<>>,
     failedAt |-> "none", backend |-> "none", shown |-> <<>>,
     raised |-> "none", line |-> 0,
     default_range |-> <<0, 0>>, date_range |-> <<0, 0>>, selected_dealers |-> {},
     filtered_df |-> <<>>, total |-> 0, unique |-> 0,
     dealer_summary |-> <<>>, issues_counts |-> <<>>,
     yes |-> [c \in BoolCols |-> NoPct], detail |-> <<>>]

\* lines 105-189 for the index labels the filter kept
Aggregates(picked, df, index, filtered_df, line) ==
    LET counted == [picked EXCEPT !.filtered_df = index,
                                  !.total = Len(filtered_df),
                                  !.unique = NUnique(filtered_df, "dealer")]
    IN  IF line = 125 THEN {[counted EXCEPT !.raised = "KeyError", !.line = line]}
        ELSE {[counted EXCEPT
                  !.dealer_summary = ds,
                  !.issues_counts = ValueCounts(IssuesData(Col(filtered_df, "issues_list"))),
                  !.yes = [c \in BoolCols |-> Mean100(filtered_df, c)],
                  !.detail = IF line = 0 THEN Detail(df, index) ELSE <<>>,
                  !.raised = IF line = 0 THEN "none" ELSE "KeyError",
                  !.line = line] :
                 ds \in SortVisits(GroupBy(filtered_df))}

\* main() from line 82 on, for the frame df, the picked date range dr and the
\* picked dealers: every display the pass can end with.  A pass that raises at
\* a line has displayed what the lines before it computed.
MainPass(base, df, dr, selected_dealers) ==
    LET line == FailLine(df)
        picked == [base EXCEPT !.default_range = DefaultRange(df),
                               !.date_range = dr]
        index == Filter(df.rows, dr[1], dr[2], selected_dealers)
    IN  IF line = 88 THEN {[base EXCEPT !.raised = FailName(df), !.line = line]}
        ELSE IF line = 94 THEN {[picked EXCEPT !.raised = "KeyError", !.line = line]}
        ELSE Aggregates([picked EXCEPT !.selected_dealers = selected_dealers], df, index,
                        Rows(df, index), line)

----------------------------------------------------------------------------
(* @st.cache_data(ttl=600) around load_data() *)

NoCache == [valid |-> FALSE, at |-> 0, value |-> [df |-> EmptyFrame, shown |-> <<>>]]

\* the entry is still served when exactly ttl seconds old
CacheHitInclusive(c, t) == c.valid /\ t - c.at <= TTL

\* the entry is served while less than ttl seconds old
CacheHit(c, t) == c.valid /\ t - c.at < TTL

\* only a frame that loaded is stored
MemoizeSuccess(c, t, body) ==
    IF body.failedAt # "none" THEN c
    ELSE [valid |-> TRUE, at |-> t, value |-> [df |-> body.df, shown |-> body.shown]]

\* whatever load_data() returns is stored, with the messages it displayed
Memoize(c, t, body) ==
    [valid |-> TRUE, at |-> t, value |-> [df |-> body.df, shown |-> body.shown]]

\* a served entry: the stored frame, the stored messages shown again, and no
\* line of load_data() executed
Replay(c) ==
    [df |-> c.value.df, shown |-> c.value.shown, raised |-> FALSE,
     failedAt |-> "none", attempts |-> <<>>, calls |-> <<>>]

\* a call of the decorated load_data()
LoadData(c, t, fileOK, secretsOK, f, data) ==
    IF CacheHit(c, t) THEN Replay(c) ELSE LoadBody(fileOK, secretsOK, f, data)

----------------------------------------------------------------------------
(* Actions *)

Faults == {"none"} \cup Range(BackendOps)

\* lines 86-95: what the two sidebar widgets return in a run.  A widget that
\* the previous run displayed keeps its value unless the user changed it, and
\* one change starts one run; a widget displayed for the first time returns
\* its default, the whole date range of the frame and no dealer.
WidgetValues(v, df, dr, selected_dealers) ==
    IF FailLine(df) = 88 THEN dr = <<0, 0>> /\ selected_dealers = {}
    ELSE IF v.ran /\ v.line \notin {80, 88}
         THEN /\ dr = v.date_range \/ selected_dealers = v.selected_dealers
              /\ selected_dealers \subseteq DealerOptions(df)
         ELSE dr = DefaultRange(df) /\ selected_dealers = {}

\* one run of the script: main(), with load_data() behind its cache
Main ==
    \E ret \in {LoadData(cache, now, credFile, credSecrets, fault, sheet)},
       dr \in Days \X Days, selected_dealers \in SUBSET Dealers :
        LET hit == CacheHit(cache, now)
            base == [BlankView EXCEPT
                        !.ran = TRUE,
                        !.at = now,
                        !.hit = hit,
                        !.attempts = ret.attempts,
                        !.calls = ret.calls,
                        !.failedAt = ret.failedAt,
                        !.backend = fault,
                        !.shown = ret.shown]
        IN  IF ret.raised
            THEN /\ view' = [base EXCEPT !.raised = "NameError", !.line = 80]
                 /\ UNCHANGED <<credFile, credSecrets, fault, sheet, now, cache>>
            ELSE /\ WidgetValues(view, ret.df, dr, selected_dealers)
                 /\ cache' = IF hit THEN cache ELSE Memoize(cache, now, ret)
                 /\ view' \in MainPass(base, ret.df, dr, selected_dealers)
                 /\ UNCHANGED <<credFile, credSecrets, fault, sheet, now>>

\* wall-clock time passes between two runs
Tick ==
    \E d \in {299, 300, 301} :
        /\ now + d <= MaxTime
        /\ now' = now + d
        /\ UNCHANGED <<credFile, credSecrets, fault, sheet, cache, view>>

\* a backend call starts to fail
Outage ==
    \E f \in Faults \ {"none"} :
        /\ fault = "none"
        /\ fault' = f
        /\ UNCHANGED <<credFile, credSecrets, sheet, now, cache, view>>

\* the backend is available again
Recover ==
    /\ fault # "none"
    /\ fault' = "none"
    /\ UNCHANGED <<credFile, credSecrets, sheet, now, cache, view>>

----------------------------------------------------------------------------
(* Worksheets *)

AllYes == [c \in {"showroom", "swift", "lending", "buy now"} |-> "Yes"]

\* one row of get_all_records(): header -> cell
MakeRow(stamp, dealer, code, flags, issues) ==
    [h \in RawHeaders |->
        CASE h = "submitted_datetime" -> stamp
          [] h = "dealer" -> dealer
          [] h = "dealer code" -> code
          [] h \in DOMAIN flags -> flags[h]
          [] h = "issues" -> issues
          [] OTHER -> ""]

Without(row, h) == [k \in DOMAIN row \ {h} |-> row[k]]

SeqsUpTo(n, S) == UNION {[1..k -> S] : k \in 0..n}

GoodRow == MakeRow(Stamp(0, 0), "Dealer A", "A1", AllYes, Text(<<"n">>))

\* worksheets that make each step of load_data() succeed or fail
LoadSheets ==
    {<<>>, <<GoodRow>>,
     <<[GoodRow EXCEPT !["submitted_datetime"] = GarbageCell]>>,
     <<[GoodRow EXCEPT !["submitted_datetime"] = BlankCell]>>,
     <<[GoodRow EXCEPT !["issues"] = NumberCell]>>}
    \cup {<<Without(GoodRow, h)>> : h \in RawHeaders}

StampCells == {Stamp(d, h) : d \in Days, h \in Hours} \cup {BlankCell}

FilterSheets ==
    SeqsUpTo(MaxRows,
        {MakeRow(t, d, "A1", AllYes, Text(<<"n">>)) : t \in StampCells, d \in Dealers})

SummarySheets ==
    SeqsUpTo(MaxVisits,
        {MakeRow(t, d, c, AllYes, Text(<<"n">>)) :
            t \in {Stamp(0, 0), BlankCell}, d \in Dealers, c \in Codes})

YesSheets ==
    UNION {SeqsUpTo(MaxVisits,
              {MakeRow(Stamp(0, 0), d, "A1", [AllYes EXCEPT ![col] = v], Text(<<"n">>)) :
                  d \in Dealers, v \in {"Yes", "No", ""}}) :
           col \in DOMAIN AllYes}

IssueCells == {Text(cs) : cs \in SeqsUpTo(MaxIssueChars, Chars)} \cup {NumberCell}

IssueSheets ==
    {sh \in SeqsUpTo(MaxRows,
                {MakeRow(Stamp(0, 0), "Dealer A", "A1", AllYes, c) : c \in IssueCells}) :
        SumSeq([i \in DOMAIN sh |-> Len(sh[i]["issues"].chars)]) <= MaxIssueChars}

----------------------------------------------------------------------------
(* Specifications *)

InitWith(sheets) ==
    /\ credFile = TRUE
    /\ credSecrets = FALSE
    /\ fault = "none"
    /\ sheet \in sheets
    /\ now = 0
    /\ cache = NoCache
    /\ view = BlankView

\* every credential state, backend fault and worksheet defect, one run after another
Init ==
    /\ credFile \in BOOLEAN
    /\ credSecrets \in BOOLEAN
    /\ fault \in Faults
    /\ sheet \in LoadSheets
    /\ now = 0
    /\ cache = NoCache
    /\ view = BlankView

Next == Main

Spec == Init /\ [][Next]_vars

\* runs spread over time while the backend fails and recovers
InitCache ==
    /\ InitWith({<<GoodRow>>})

NextCache == Main \/ Tick \/ Outage \/ Recover

SpecCache == InitCache /\ [][NextCache]_vars

\* runs over worksheets that differ in timestamps and dealers
InitFilter == InitWith(FilterSheets)
SpecFilter == InitFilter /\ [][Next]_vars

\* runs over worksheets that differ in dealers, dealer codes and timestamps
InitSummary == InitWith(SummarySheets)
SpecSummary == InitSummary /\ [][Next]_vars

\* runs over worksheets that differ in one Yes/No column
InitYes == InitWith(YesSheets)
SpecYes == InitYes /\ [][Next]_vars

\* runs over worksheets that differ in the issues column
InitIssues == InitWith(IssueSheets)
SpecIssues == InitIssues /\ [][Next]_vars

----------------------------------------------------------------------------
(* Properties *)

\* the last run of main() executed line l without raising at or before it
Ran(l) == view.ran /\ (view.line = 0 \/ view.line > l)

\* the frame the last run worked on, and its filtered rows
Frame0 == cache.value.df

Shown == [k \in DOMAIN view.filtered_df |-> Frame0.rows[view.filtered_df[k]]]

\* C1: after load_data() failed and returned the empty record set, the rest
\* of main() completes without raising, total visits and unique dealers are 0
\* and every percentage is the missing-value sentinel.
C1_EmptyFrameRenders ==
    (view.ran /\ view.shown # <<>>) =>
        /\ view.raised = "none"
        /\ view.total = 0
        /\ view.unique = 0
        /\ \A c \in BoolCols : view.yes[c].nan

\* C2: whichever step of load_data() fails, the exception is caught, an error
\* message is shown and the empty frame is returned; nothing propagates to
\* main(), also not from the handler when the failure came before df was bound.
C2_LoadFailureHandled ==
    (view.ran /\ ~ view.hit /\ view.failedAt # "none") =>
        /\ view.raised # "NameError"
        /\ view.line # 80
        /\ view.shown # <<>>
        /\ view.shown[1].message = "Error loading data"
        /\ cache.valid
        /\ cache.value.df = EmptyFrame
        /\ cache.value.shown = view.shown

C2_Witness ==
    /\ view.ran /\ ~ view.hit
    /\ view.failedAt \in {"credentials", "authorize", "open", "worksheet", "get_all_records"}
    /\ Len(view.shown) = 2
    /\ view.shown[2].columns = {"No DataFrame available"}
    /\ cache.value.df = EmptyFrame

\* one step as C3 allows it
C3_Step ==
    /\ cache' # cache =>
          /\ ~ cache.valid \/ now - cache.at >= 600
          /\ cache'.valid /\ cache'.at = now
          /\ ~ view'.hit /\ view'.attempts # <<>>
    /\ view' # view =>
          IF cache.valid /\ now - cache.at < 600
          THEN /\ cache' = cache
               /\ view'.hit
               /\ view'.attempts = <<>> /\ view'.calls = <<>>
               /\ view'.shown = cache.value.shown
          ELSE /\ ~ view'.hit
               /\ view'.attempts # <<>>
               /\ cache'.valid /\ cache'.at = now

\* C3: a run made less than 600 s after the run that filled the cache is served
\* the stored result and executes nothing of load_data(); the first run made
\* 600 s or more after it loads afresh; the entry is replaced for no other reason.
C3_CacheExpiresByTimeOnly == [][C3_Step]_vars

C3_Witness ==
    /\ view.ran /\ view.hit
    /\ view.at - cache.at = 599
    /\ view.date_range # view.default_range

\* timestamp t falls on calendar day d
OnDay(t, d) == t # NaT /\ d * 24 <= t /\ t < (d + 1) * 24

C4_Matches ==
    {i \in DOMAIN Frame0.rows :
        /\ \E d \in view.date_range[1]..view.date_range[2] :
              OnDay(Frame0.rows[i]["submitted_datetime"], d)
        /\ view.selected_dealers = {} \/ Frame0.rows[i]["dealer"] \in view.selected_dealers}

\* C4: the filtered set is the records, in their original order, whose
\* timestamp falls on a calendar day of [start, end] and, when dealers are
\* selected, whose dealer is selected; start > end gives the empty set, no error.
C4_FilteredSet ==
    (view.ran /\ view.line \notin {80, 88, 94}) =>
        /\ view.line \notin 95..103
        /\ Range(view.filtered_df) = C4_Matches
        /\ \A j, k \in DOMAIN view.filtered_df : j < k => view.filtered_df[j] < view.filtered_df[k]
        /\ view.date_range[1] > view.date_range[2] => view.filtered_df = <<>>

C4_Witness ==
    /\ Ran(103)
    /\ view.selected_dealers # {}
    /\ view.filtered_df = <<2>>
    /\ Frame0.rows[2]["submitted_datetime"] = view.date_range[2] * 24 + 23
    /\ Frame0.rows[1]["dealer"] \in view.selected_dealers

\* C5: the dealer summary has exactly one row per distinct dealer of the
\* filtered set, and its visit counts add up to the size of the filtered set.
C5_DealerSummary ==
    Ran(131) =>
        LET ds == view.dealer_summary
        IN  /\ {ds[k].dealer : k \in DOMAIN ds} = Range(Col(Shown, "dealer"))
            /\ \A j, k \in DOMAIN ds : j # k => ds[j].dealer # ds[k].dealer
            /\ Len(ds) = Cardinality(Range(Col(Shown, "dealer")))
            /\ SumSeq([k \in DOMAIN ds |-> ds[k].visits]) = Len(view.filtered_df)

C5_Witness ==
    /\ Ran(131)
    /\ Len(view.dealer_summary) = 1
    /\ view.dealer_summary[1].visits = 2
    /\ Len(view.filtered_df) = 2
    /\ \E i \in DOMAIN sheet : sheet[i]["submitted_datetime"] = BlankCell

\* the first record of dealer d in the filtered set
FirstOf(d) ==
    CHOOSE k \in DOMAIN view.filtered_df :
        /\ Shown[k]["dealer"] = d
        /\ \A j \in 1..(k - 1) : Shown[j]["dealer"] # d

C6_Descending ==
    \A j, k \in DOMAIN view.dealer_summary :
        j < k => view.dealer_summary[j].visits >= view.dealer_summary[k].visits

C6_FirstCode ==
    \A k \in DOMAIN view.dealer_summary :
        view.dealer_summary[k].code =
            Shown[FirstOf(view.dealer_summary[k].dealer)]["dealer_code"]

\* C6 as stated: the summary is ordered by visit count descending, dealers with
\* equal counts keep the order in which they are first met in the filtered set,
\* and each row carries the dealer code of the dealer's first record.
C6_EncounterOrderTies ==
    Ran(131) =>
        /\ C6_Descending
        /\ C6_FirstCode
        /\ \A j, k \in DOMAIN view.dealer_summary :
              (j < k /\ view.dealer_summary[j].visits = view.dealer_summary[k].visits)
                  => FirstOf(view.dealer_summary[j].dealer)
                         < FirstOf(view.dealer_summary[k].dealer)

\* C6 amended: the summary is ordered by visit count descending and each row
\* carries the dealer code of the dealer's first record; the order of dealers
\* with equal counts is not the order of first encounter.
C6_DescendingFirstCode == Ran(131) => C6_Descending /\ C6_FirstCode

C6_Witness ==
    /\ Ran(131)
    /\ Len(view.dealer_summary) = 2
    /\ view.dealer_summary[1].visits = 2
    /\ view.dealer_summary[2].visits = 1
    /\ \E j, k \in DOMAIN view.filtered_df :
          /\ Shown[j]["dealer"] = Shown[k]["dealer"]
          /\ Shown[j]["dealer_code"] # Shown[k]["dealer_code"]

\* ', '.join(tags)
RECURSIVE Join(_)
Join(tags) ==
    IF Len(tags) = 1 THEN tags[1]
    ELSE tags[1] \o <<",", " ">> \o Join(Tail(tags))

\* the issue tags the chart counts
C7_CountedTags ==
    UNION {view.issues_counts[k].tags : k \in DOMAIN view.issues_counts}

\* C7: a non-empty issues string is split on ', ' into its tags in their
\* original order; an issues value that is the empty string or absent gives the
\* missing marker, the same in both cases, and such a record adds no tag, in
\* particular no empty tag, to the issue frequency.
C7_EmptyIssuesNoTag ==
    Ran(152) =>
        /\ \A i \in DOMAIN Frame0.rows :
              LET cell == Frame0.rows[i]["issues"]
                  list == Frame0.rows[i]["issues_list"]
              IN  IF cell.str /\ cell.chars # <<>>
                  THEN /\ ~ list.nan
                       /\ list.tags # <<>>
                       /\ Join(list.tags) = cell.chars
                       /\ \A k \in DOMAIN list.tags : FirstDelim(list.tags[k]) = 0
                  ELSE list.nan
        /\ (\A k \in DOMAIN Shown :
                ~ Shown[k]["issues"].str \/ Shown[k]["issues"].chars = <<>>)
              => C7_CountedTags = {}

\* the worksheet header of a Yes/No column
RawFlag(c) == IF c = "buy_now" THEN "buy now" ELSE c

C8_Yes(c) == {k \in DOMAIN view.filtered_df : sheet[view.filtered_df[k]][RawFlag(c)] = "Yes"}

C8_Set(c) ==
    {k \in DOMAIN view.filtered_df : sheet[view.filtered_df[k]][RawFlag(c)] \in {"Yes", "No"}}

\* C8 as stated: for a non-empty filtered set, percentage * (filtered records)
\* = 100 * (filtered records whose value is Yes); an unset value stays in the
\* denominator.
C8_UnsetInDenominator ==
    (Ran(171) /\ view.filtered_df # <<>>) =>
        \A c \in BoolCols :
            /\ ~ view.yes[c].nan
            /\ view.yes[c].num * Len(view.filtered_df)
                   = 100 * Cardinality(C8_Yes(c)) * view.yes[c].den

\* C8 amended: percentage * (filtered records whose value is Yes or No)
\* = 100 * (filtered records whose value is Yes): an unset value is left out
\* of the denominator as well, and with no Yes or No among the filtered records
\* the percentage is the missing value.
C8_UnsetSkipped ==
    Ran(171) =>
        \A c \in BoolCols :
            IF C8_Set(c) = {} THEN view.yes[c].nan
            ELSE /\ ~ view.yes[c].nan
                 /\ view.yes[c].num * Cardinality(C8_Set(c))
                        = 100 * Cardinality(C8_Yes(c)) * view.yes[c].den

C8_Witness ==
    /\ Ran(171)
    /\ \E c \in BoolCols :
          /\ Cardinality(C8_Yes(c)) = 1
          /\ Cardinality(C8_Set(c)) = 1
          /\ Len(view.filtered_df) = 2
          /\ Len(sheet) = 3

\* C9: the credential file is always tried first, the configured blob is tried
\* exactly when the file attempt failed, the backend is contacted only after
\* exactly one attempt succeeded, and when both fail the load fails without
\* any backend call.
C9_CredentialOrder ==
    (view.ran /\ ~ view.hit) =>
        LET a == view.attempts
            good == {i \in DOMAIN a : a[i].ok}
        IN  /\ Len(a) \in {1, 2}
            /\ a[1].source = "service_account_file"
            /\ a[1].ok = credFile
            /\ Len(a) = 2 <=> ~ a[1].ok
            /\ Len(a) = 2 => a[2].source = "secrets" /\ a[2].ok = credSecrets
            /\ view.calls # <<>> => Cardinality(good) = 1
            /\ good # {} => view.calls # <<>> /\ view.calls[1] = "authorize"
            /\ good = {} =>
                  /\ view.calls = <<>>
                  /\ view.failedAt = "credentials"
                  /\ view.shown # <<>>
                  /\ cache.value.df = EmptyFrame

C9_Witness ==
    /\ view.ran /\ ~ view.hit
    /\ Len(view.attempts) = 2
    /\ ~ view.attempts[1].ok
    /\ view.attempts[2].ok
    /\ view.calls = BackendOps

\* one step as C10 allows it
C10_Step ==
    /\ (view' # view /\ ~ view'.hit /\ view'.failedAt # "none") =>
          /\ cache'.valid /\ cache'.at = now
          /\ cache'.value.df = EmptyFrame
          /\ cache'.value.shown # <<>>
    /\ (view' # view /\ cache.valid /\ cache.value.shown # <<>>
            /\ now - cache.at < 600) =>
          /\ cache' = cache
          /\ view'.hit
          /\ view'.attempts = <<>> /\ view'.calls = <<>>
          /\ view'.shown = cache.value.shown
          /\ cache'.value.df = EmptyFrame

\* C10: a failed load is memoized like a successful one: the run that failed
\* stores the empty frame, and every run within the next 600 s is served it
\* without trying the credentials or the backend again, also when the backend
\* is available again.
C10_FailedLoadMemoized == [][C10_Step]_vars

C10_Witness ==
    /\ view.ran /\ view.hit
    /\ view.shown # <<>>
    /\ view.backend = "none"
    /\ view.at > cache.at
    /\ cache.value.df = EmptyFrame

====
